---- MODULE Spec2Model ----
(***************************************************************************)
(* A model of src/core/trtserver.cc, the C facade (TRTSERVER_* functions)  *)
(* over the inference server engine.  Pointers that may be null and        *)
(* out-parameters that may stay unwritten are sequences of length 0 or 1:  *)
(* <<>> is nullptr (or "not written"), <<x>> is a pointer to object x.     *)
(***************************************************************************)
EXTENDS Integers, Sequences, FiniteSets, TLC

VARIABLES
  errArgs,        \* arguments of the last TrtServerError::Create call
  errObj,         \* the TRTSERVER_Error* that call returned
  errPc,          \* "idle" | "created" | "read"
  errRead,        \* what TRTSERVER_ErrorCode / TRTSERVER_ErrorMessage returned
  provider,       \* the caller's TRTSERVER_InferenceRequestProvider*
  lastNew,        \* the last TRTSERVER_InferenceRequestProviderNew call
  setCalls,       \* history of SetInputData calls made on the provider
  header_torn,    \* whether racing writes left the provider's header undefined
  options,        \* the caller's TRTSERVER_ServerOptions*
  engines,        \* every ni::InferenceServer object constructed so far
  lastSrv,        \* the last TRTSERVER_Server* facade call and what it did
  pc,             \* per TRTSERVER_ServerInferAsync call: the caller's position
  ret,            \* per call: the TRTSERVER_Error* the call returned
  infer_stats,    \* per call: the ni::ModelInferStats object
  verbs,          \* per call: the engine verbs the call invoked, in order
  cont,           \* per call: the completion lambda handed to HandleInfer
  request_status, \* per call: the ni::RequestStatus the engine fills
  responses,      \* per call: the TrtServerResponse objects its lambda made
  delivered,      \* per call: the complete_fn invocations, in order
  objs,           \* per call: who holds each shared_ptr-managed object
  response_provider, \* per call: the DelegatingInferResponseProvider object
  deleted,        \* the TrtServerResponse objects the caller has deleted
  lastResp        \* the last TRTSERVER_InferenceResponse* query and its answer

errVars == <<errArgs, errObj, errPc, errRead>>
reqVars == <<provider, lastNew, setCalls, header_torn>>
srvVars == <<options, engines, lastSrv>>
bundleVars == <<deleted, lastResp>>
inferVars ==
  <<pc, ret, infer_stats, verbs, cont, request_status, responses, delivered,
    objs, response_provider, bundleVars>>
vars == <<errVars, reqVars, srvVars, inferVars>>

(***************************************************************************)
(* Bounds of the model.                                                    *)
(***************************************************************************)
MaxFrags == 3
MaxEngines == 2
NumCalls == 2

nullptr == <<>>
Unwritten == <<>>

(***************************************************************************)
(* ni::RequestStatusCode.  The seven failure codes and SUCCESS are the     *)
(* codes trtserver.cc names; INVALID stands for any other value of the     *)
(* enum (the switch of TRTSERVER_ErrorCode has a default branch for it).   *)
(***************************************************************************)
FailureCodes ==
  {"UNKNOWN", "INTERNAL", "NOT_FOUND", "INVALID_ARG", "UNAVAILABLE",
   "UNSUPPORTED", "ALREADY_EXISTS"}
ReportedCodes == {"SUCCESS"} \cup FailureCodes
RequestStatusCodes == ReportedCodes \cup {"INVALID"}
Messages == {"", "m1", "m2", "m3"}

Success == [code |-> "SUCCESS", msg |-> ""]

\* TrtServerError::TrtServerError(code, msg)
TrtServerError(code, msg) == [code_ |-> code, msg_ |-> msg]

\* Mutant: the success test is left out.
CreateNoSuccessTest(code, msg) == <<TrtServerError(code, msg)>>

\* TrtServerError::Create(code, msg)
Create(code, msg) ==
  IF code = "SUCCESS" THEN nullptr ELSE <<TrtServerError(code, msg)>>

\* TrtServerError::Create(const ni::RequestStatus&)
CreateFromStatus(status) == Create(status.code, status.msg)

\* RETURN_IF_STATUS_ERROR(S): whether it returns, and what it returns.
StatusIsError(S) == S.code # "SUCCESS"
ReturnIfStatusError(S) == Create(S.code, S.msg)

\* TRTSERVER_ErrorCode(error)
TRTSERVER_ErrorCode(error) ==
  CASE error.code_ = "UNKNOWN" -> "TRTSERVER_ERROR_UNKNOWN"
    [] error.code_ = "INTERNAL" -> "TRTSERVER_ERROR_INTERNAL"
    [] error.code_ = "NOT_FOUND" -> "TRTSERVER_ERROR_NOT_FOUND"
    [] error.code_ = "INVALID_ARG" -> "TRTSERVER_ERROR_INVALID_ARG"
    [] error.code_ = "UNAVAILABLE" -> "TRTSERVER_ERROR_UNAVAILABLE"
    [] error.code_ = "UNSUPPORTED" -> "TRTSERVER_ERROR_UNSUPPORTED"
    [] error.code_ = "ALREADY_EXISTS" -> "TRTSERVER_ERROR_ALREADY_EXISTS"
    [] OTHER -> "TRTSERVER_ERROR_UNKNOWN"

\* TRTSERVER_ErrorMessage(error)
TRTSERVER_ErrorMessage(error) == error.msg_

(***************************************************************************)
(* The error object on its own: create, read through the accessors, delete.*)
(***************************************************************************)
ErrInit ==
  /\ errArgs = <<>>
  /\ errObj = nullptr
  /\ errPc = "idle"
  /\ errRead = <<>>

\* A facade operation translates a result (code, msg) into a TRTSERVER_Error*.
ErrCreate(code, msg) ==
  /\ errPc = "idle"
  /\ errArgs' = <<[code |-> code, msg |-> msg]>>
  /\ errObj' = Create(code, msg)
  /\ errPc' = "created"
  /\ errRead' = <<>>
  /\ UNCHANGED <<reqVars, srvVars, inferVars>>

\* The caller reads a present error through the accessor functions.
ErrAccess ==
  /\ errPc = "created"
  /\ errObj # nullptr
  /\ errRead' = <<[code |-> TRTSERVER_ErrorCode(errObj[1]),
                   message |-> TRTSERVER_ErrorMessage(errObj[1])]>>
  /\ errPc' = "read"
  /\ UNCHANGED <<errArgs, errObj, reqVars, srvVars, inferVars>>

\* TRTSERVER_ErrorDelete(error); deleting nullptr does nothing.
TRTSERVER_ErrorDelete ==
  /\ errPc \in {"created", "read"}
  /\ errObj' = nullptr
  /\ errPc' = "idle"
  /\ UNCHANGED <<errArgs, errRead, reqVars, srvVars, inferVars>>

ErrNext ==
  \/ \E code \in RequestStatusCodes, msg \in Messages : ErrCreate(code, msg)
  \/ ErrAccess
  \/ TRTSERVER_ErrorDelete

(***************************************************************************)
(* TrtServerProtobuf: the message is serialized when the wrapper is built. *)
(* A message is a sequence of <<field number, value>> pairs; its           *)
(* serialization is the flat sequence number, value, number, value, ...    *)
(***************************************************************************)
RECURSIVE SerializeToString(_)
SerializeToString(msg) ==
  IF msg = <<>> THEN <<>>
  ELSE <<msg[1][1], msg[1][2]>> \o SerializeToString(Tail(msg))

\* TrtServerProtobuf::TrtServerProtobuf(msg)
TrtServerProtobuf(msg) == [serialized_ |-> SerializeToString(msg)]

(***************************************************************************)
(* Request descriptor (TrtServerRequestProvider).                          *)
(***************************************************************************)
ModelNames == {"m", "x"}
ModelVersions == {-1, 1}
InputNames == {"a", "b"}
\* (base, byte_size) pairs the caller passes to SetInputData
Buffers == {<<"p1", 4>>, <<"p2", 8>>}
\* Header bytes the caller passes: field 1 (batch_size) is tag 8 followed by
\* its value; <<>> is the empty message; <<8>> is a truncated field.
HeaderBytes == {<<>>, <<8, 1>>, <<8>>}

\* InferRequestHeader::ParseFromArray on a default-constructed header:
\* [ok, header]; the header holds whatever was parsed before a failure.
RECURSIVE ParseFields(_, _)
ParseFields(bytes, header) ==
  IF bytes = <<>> THEN [ok |-> TRUE, header |-> header]
  ELSE IF Len(bytes) = 1 \/ bytes[1] # 8
       THEN [ok |-> FALSE, header |-> header]
       ELSE ParseFields(SubSeq(bytes, 3, Len(bytes)),
                        [header EXCEPT !.batch_size = bytes[2]])

DefaultHeader == [batch_size |-> 0, normalized |-> FALSE]
ParseFromArray(bytes) == ParseFields(bytes, DefaultHeader)

\* TrtServerRequestProvider::TrtServerRequestProvider
TrtServerRequestProvider(model_name, model_version, request_header) ==
  [model_name_ |-> model_name, model_version_ |-> model_version,
   request_header_ |-> request_header, input_map_ |-> <<>>]

\* SystemMemoryReference::AddBuffer(base, byte_size)
AddBuffer(smem, base, byte_size) == Append(smem, <<base, byte_size>>)

\* Mutant: the fragment list is reset on every call, not only for a new name.
SetInputDataAlwaysResets(lprovider, input_name, base, byte_size) ==
  [lprovider EXCEPT !.input_map_ =
     (input_name :> AddBuffer(<<>>, base, byte_size)) @@ lprovider.input_map_]

\* TrtServerRequestProvider::SetInputData: the provider after the call.
SetInputDataOn(lprovider, input_name, base, byte_size) ==
  LET inserted == input_name \notin DOMAIN lprovider.input_map_
      smem == IF inserted THEN <<>> ELSE lprovider.input_map_[input_name]
  IN [lprovider EXCEPT !.input_map_ =
        (input_name :> AddBuffer(smem, base, byte_size))
          @@ lprovider.input_map_]

ReqInit ==
  /\ provider = nullptr
  /\ lastNew = <<>>
  /\ setCalls = <<>>
  /\ header_torn = FALSE

\* Mutant: the handle is written although the header did not parse.
ProviderNewIgnoresParse(model_name, model_version, bytes) ==
  LET parsed == ParseFromArray(bytes)
  IN /\ provider = nullptr
     /\ provider' =
          <<TrtServerRequestProvider(model_name, model_version, parsed.header)>>
     /\ lastNew' = <<[model_name |-> model_name, model_version |-> model_version,
                      bytes |-> bytes, ret |-> nullptr, out |-> provider',
                      verbs |-> <<>>]>>
     /\ setCalls' = <<>>
     /\ header_torn' = FALSE
     /\ UNCHANGED <<errVars, srvVars, inferVars>>

\* TRTSERVER_InferenceRequestProviderNew, called with the caller's unset
\* request_provider variable as output.
TRTSERVER_InferenceRequestProviderNew(model_name, model_version, bytes) ==
  LET parsed == ParseFromArray(bytes)
      err == IF parsed.ok THEN nullptr
             ELSE Create("INVALID_ARG", "failed to parse InferRequestHeader")
  IN /\ provider = nullptr
     /\ provider' =
          IF parsed.ok
          THEN <<TrtServerRequestProvider(model_name, model_version,
                                          parsed.header)>>
          ELSE provider
     /\ lastNew' = <<[model_name |-> model_name, model_version |-> model_version,
                      bytes |-> bytes, ret |-> err, out |-> provider',
                      verbs |-> <<>>]>>
     /\ setCalls' = <<>>
     /\ header_torn' = FALSE
     /\ UNCHANGED <<errVars, srvVars, inferVars>>

\* TRTSERVER_InferenceRequestProviderSetInputData
TRTSERVER_InferenceRequestProviderSetInputData(input_name, base, byte_size) ==
  /\ provider # nullptr
  /\ Len(setCalls) < MaxFrags
  /\ provider' = <<SetInputDataOn(provider[1], input_name, base, byte_size)>>
  /\ setCalls' = Append(setCalls, <<input_name, base, byte_size>>)
  /\ UNCHANGED <<lastNew, header_torn, errVars, srvVars, inferVars>>

\* TRTSERVER_InferenceRequestProviderDelete
TRTSERVER_InferenceRequestProviderDelete ==
  /\ provider # nullptr
  /\ provider' = nullptr
  /\ setCalls' = <<>>
  /\ UNCHANGED <<lastNew, header_torn, errVars, srvVars, inferVars>>

ReqNext ==
  \/ \E n \in ModelNames, v \in ModelVersions, b \in HeaderBytes :
       TRTSERVER_InferenceRequestProviderNew(n, v, b)
  \/ \E n \in InputNames, buf \in Buffers :
       TRTSERVER_InferenceRequestProviderSetInputData(n, buf[1], buf[2])
  \/ TRTSERVER_InferenceRequestProviderDelete

(***************************************************************************)
(* Server options, server handle and status queries.  The engine           *)
(* (ni::InferenceServer) is reached only through its verbs; what each verb *)
(* may answer is listed as a set of outcomes.                              *)
(***************************************************************************)
RepositoryPaths == {"/models", "/nonexistent"}
ValidPaths == {"/models"}
KnownModels == {"m"}
NullServer == 0

\* InferenceServer::Init() after SetModelStorePath(path)
InitOutcomes(path) == IF path \in ValidPaths THEN {TRUE, FALSE} ELSE {FALSE}

\* The ServerStatus message HandleStatus fills for model_name ("" = all).
ServerStatusFor(model_name) ==
  <<<<1, "inference:0">>>> \o
    (IF model_name = "" THEN <<<<2, "m">>>> ELSE <<<<2, model_name>>>>)

\* InferenceServer::HandleStatus(&request_status, &server_status, model_name)
HandleStatusOutcomes(model_name) ==
  {[code |-> "UNAVAILABLE", msg |-> "server not ready", status |-> <<>>]} \cup
  (IF model_name = "" \/ model_name \in KnownModels
   THEN {[code |-> "SUCCESS", msg |-> "",
          status |-> ServerStatusFor(model_name)]}
   ELSE {[code |-> "NOT_FOUND", msg |-> "no status for model",
          status |-> <<>>]})

EngineCall(by, eng, verb, arg) ==
  [by |-> by, eng |-> eng, verb |-> verb, arg |-> arg]
LiveServers == {e \in 1..Len(engines) : engines[e].state = "ready"}

SrvInit ==
  /\ options = nullptr
  /\ engines = <<>>
  /\ lastSrv = <<>>

\* TRTSERVER_ServerOptionsNew
TRTSERVER_ServerOptionsNew ==
  /\ options = nullptr
  /\ options' = <<[repo_path_ |-> ""]>>
  /\ UNCHANGED <<engines, lastSrv, errVars, reqVars, inferVars>>

\* TRTSERVER_ServerOptionsSetModelRepositoryPath
TRTSERVER_ServerOptionsSetModelRepositoryPath(model_repository_path) ==
  /\ options # nullptr
  /\ options' = <<[options[1] EXCEPT !.repo_path_ = model_repository_path]>>
  /\ UNCHANGED <<engines, lastSrv, errVars, reqVars, inferVars>>

\* TRTSERVER_ServerOptionsDelete
TRTSERVER_ServerOptionsDelete ==
  /\ options # nullptr
  /\ options' = nullptr
  /\ UNCHANGED <<engines, lastSrv, errVars, reqVars, inferVars>>


\* Mutant: the handle is written before Init() is tested and the engine
\* that failed to initialize is not destroyed.
ServerNewKeepsFailed ==
  /\ options # nullptr
  /\ Len(engines) < MaxEngines
  /\ LET lserver == Len(engines) + 1
         path == options[1].repo_path_
     IN \E ok \in InitOutcomes(path) :
          LET calls == <<EngineCall("ServerNew", lserver, "new", ""),
                         EngineCall("ServerNew", lserver, "SetModelStorePath", path),
                         EngineCall("ServerNew", lserver, "Init", "")>>
          IN /\ engines' = Append(engines,
                  [store_path |-> path, state |-> "ready", trace |-> calls])
             /\ lastSrv' = <<[op |-> "ServerNew", server |-> NullServer,
                  arg |-> path, init_ok |-> ok,
                  ret |-> IF ok THEN nullptr
                          ELSE Create("INVALID_ARG",
                                 "failed to initialize inference server"),
                  out |-> <<lserver>>,
                  verbs |-> calls]>>
  /\ UNCHANGED <<options, errVars, reqVars, inferVars>>

\* TRTSERVER_ServerNew, called with the caller's unset server variable as
\* output.
TRTSERVER_ServerNew ==
  /\ options # nullptr
  /\ Len(engines) < MaxEngines
  /\ LET lserver == Len(engines) + 1
         path == options[1].repo_path_
     IN \E ok \in InitOutcomes(path) :
          LET calls == <<EngineCall("ServerNew", lserver, "new", ""),
                         EngineCall("ServerNew", lserver, "SetModelStorePath", path),
                         EngineCall("ServerNew", lserver, "Init", "")>>
                       \o (IF ok THEN <<>>
                           ELSE <<EngineCall("ServerNew", lserver, "delete", "")>>)
          IN /\ engines' = Append(engines,
                  [store_path |-> path,
                   state |-> IF ok THEN "ready" ELSE "destroyed",
                   trace |-> calls])
             /\ lastSrv' = <<[op |-> "ServerNew", server |-> NullServer,
                  arg |-> path, init_ok |-> ok,
                  ret |-> IF ok THEN nullptr
                          ELSE Create("INVALID_ARG",
                                 "failed to initialize inference server"),
                  out |-> IF ok THEN <<lserver>> ELSE Unwritten,
                  verbs |-> calls]>>
  /\ UNCHANGED <<options, errVars, reqVars, inferVars>>


\* Mutant: Stop() is called on the engine after it was destroyed.
ServerDeleteStopLast(server) ==
  /\ server = NullServer \/ server \in LiveServers
  /\ LET calls == IF server # NullServer
                  THEN <<EngineCall("ServerDelete", server, "delete", ""),
                         EngineCall("ServerDelete", server, "Stop", "")>>
                  ELSE <<>>
     IN /\ engines' = IF server # NullServer
                      THEN [engines EXCEPT ![server].state = "destroyed",
                                           ![server].trace = @ \o calls]
                      ELSE engines
        /\ lastSrv' = <<[op |-> "ServerDelete", server |-> server,
             arg |-> "", init_ok |-> TRUE,
             ret |-> nullptr, out |-> Unwritten, verbs |-> calls]>>
  /\ UNCHANGED <<options, errVars, reqVars, inferVars>>

\* TRTSERVER_ServerDelete(server): server is nullptr or a live handle.
TRTSERVER_ServerDelete(server) ==
  /\ server = NullServer \/ server \in LiveServers
  /\ LET calls == IF server # NullServer
                  THEN <<EngineCall("ServerDelete", server, "Stop", ""),
                         EngineCall("ServerDelete", server, "delete", "")>>
                  ELSE <<>>
     IN /\ engines' = IF server # NullServer
                      THEN [engines EXCEPT ![server].state = "destroyed",
                                           ![server].trace = @ \o calls]
                      ELSE engines
        /\ lastSrv' = <<[op |-> "ServerDelete", server |-> server,
             arg |-> "", init_ok |-> TRUE,
             ret |-> nullptr, out |-> Unwritten, verbs |-> calls]>>
  /\ UNCHANGED <<options, errVars, reqVars, inferVars>>

\* What TRTSERVER_ServerStatus and TRTSERVER_ServerModelStatus do once the
\* engine has answered: the record of the call.
StatusCall(op, server, model_name, answer) ==
  [op |-> op, server |-> server, arg |-> model_name, init_ok |-> TRUE,
   ret |-> Create(answer.code, answer.msg),
   out |-> IF answer.code = "SUCCESS"
           THEN <<TrtServerProtobuf(answer.status)>>
           ELSE Unwritten,
   verbs |-> <<[by |-> op, eng |-> server, verb |-> "HandleStatus",
                arg |-> model_name, answer |-> answer]>>]

\* std::string(): the model name TRTSERVER_ServerStatus passes.
std_string == ""

\* Mutant: the payload is built whatever the engine's code.
ServerStatusAlwaysWraps(server) ==
  /\ server \in LiveServers
  /\ \E answer \in HandleStatusOutcomes(std_string) :
       lastSrv' = <<[StatusCall("ServerStatus", server, std_string, answer)
                      EXCEPT !.out = <<TrtServerProtobuf(answer.status)>>]>>
  /\ UNCHANGED <<options, engines, errVars, reqVars, inferVars>>

\* TRTSERVER_ServerStatus(server, &status)
TRTSERVER_ServerStatus(server) ==
  /\ server \in LiveServers
  /\ \E answer \in HandleStatusOutcomes(std_string) :
       lastSrv' = <<StatusCall("ServerStatus", server, std_string, answer)>>
  /\ UNCHANGED <<options, engines, errVars, reqVars, inferVars>>

\* TRTSERVER_ServerModelStatus(server, &status, model_name)
TRTSERVER_ServerModelStatus(server, model_name) ==
  /\ server \in LiveServers
  /\ \E answer \in HandleStatusOutcomes(model_name) :
       lastSrv' = <<StatusCall("ServerModelStatus", server, model_name,
                               answer)>>
  /\ UNCHANGED <<options, engines, errVars, reqVars, inferVars>>

SrvNext ==
  \/ TRTSERVER_ServerOptionsNew
  \/ \E path \in RepositoryPaths :
       TRTSERVER_ServerOptionsSetModelRepositoryPath(path)
  \/ TRTSERVER_ServerOptionsDelete
  \/ TRTSERVER_ServerNew
  \/ \E server \in 0..MaxEngines : TRTSERVER_ServerDelete(server)
  \/ \E server \in 1..MaxEngines : TRTSERVER_ServerStatus(server)
  \/ \E server \in 1..MaxEngines, model_name \in ModelNames :
       TRTSERVER_ServerModelStatus(server, model_name)

(***************************************************************************)
(* TRTSERVER_ServerInferAsync.  A call runs on the caller's thread, one    *)
(* engine verb per step; the lambda it hands to HandleInfer runs on an     *)
(* engine thread.  Calls are numbered; call i passes userp = i.            *)
(***************************************************************************)
Calls == 1..NumCalls
TheServer == 1

DefaultRequestStatus == [code |-> "INVALID", msg |-> ""]
NoStats == [made |-> FALSE, failed |-> FALSE]
NoCont == [state |-> "none", captured |-> {}, trace |-> <<>>]

\* InferenceServer::GetInferenceBackend(model_name, model_version, &backend)
GetInferenceBackendOutcomes(model_name, model_version) ==
  IF model_name \in KnownModels
  THEN {Success}
  ELSE {[code |-> "NOT_FOUND", msg |-> "no backend for model"]}

\* ni::NormalizeRequestHeader(backend, request_header)
NormalizeOutcomes == {Success, [code |-> "INVALID_ARG", msg |-> "bad header"]}
NormalizeRequestHeader(header) == [header EXCEPT !.normalized = TRUE]
\* Whether the header is torn after a call has normalized it: a call that
\* writes while another call is normalizing the same object races with it,
\* and the content of the object may then be undefined.
TornOutcomes(torn, overlapping) == IF overlapping THEN {torn, TRUE} ELSE {torn}

\* ni::InferRequestProvider::Create
RequestProviderOutcomes ==
  {Success, [code |-> "INVALID_ARG", msg |-> "bad inputs"]}

\* ni::DelegatingInferResponseProvider::Create
ResponseProviderOutcomes ==
  {Success, [code |-> "INTERNAL", msg |-> "no response provider"]}

\* The terminal result the engine writes to request_status before it
\* invokes the continuation.
TerminalResults ==
  {Success, [code |-> "UNAVAILABLE", msg |-> "inference failed"]}

\* Mutant: version -1 is replaced by a concrete version before the engine
\* is called.
VerbArgsResolvesVersion(name, lprovider) ==
  LET version == IF lprovider.model_version_ = -1 THEN 1
                 ELSE lprovider.model_version_
  IN CASE name = "GetInferenceBackend" ->
            [model_name |-> lprovider.model_name_, model_version |-> version]
       [] name = "NormalizeRequestHeader" ->
            [header |-> lprovider.request_header_]
       [] name = "InferRequestProvider::Create" ->
            [model_name |-> lprovider.model_name_,
             model_version |-> version,
             header |-> lprovider.request_header_,
             input_map |-> lprovider.input_map_]
       [] name = "DelegatingInferResponseProvider::Create" ->
            [header |-> lprovider.request_header_]
       [] OTHER -> [continuation |-> TRUE]

\* What each engine verb of TRTSERVER_ServerInferAsync is passed.
VerbArgs(name, lprovider) ==
  CASE name = "GetInferenceBackend" ->
         [model_name |-> lprovider.model_name_,
          model_version |-> lprovider.model_version_]
    [] name = "NormalizeRequestHeader" ->
         [header |-> lprovider.request_header_]
    [] name = "InferRequestProvider::Create" ->
         [model_name |-> lprovider.model_name_,
          model_version |-> lprovider.model_version_,
          header |-> lprovider.request_header_,
          input_map |-> lprovider.input_map_]
    [] name = "DelegatingInferResponseProvider::Create" ->
         [header |-> lprovider.request_header_]
    [] OTHER -> [continuation |-> TRUE]
HeaderVerbs ==
  {"NormalizeRequestHeader", "InferRequestProvider::Create",
   "DelegatingInferResponseProvider::Create"}

Verb(name, lprovider, S) ==
  [verb |-> name, result |-> S, args |-> VerbArgs(name, lprovider)]

\* The objects TRTSERVER_ServerInferAsync manages through std::shared_ptr, by
\* the names of its local variables.  Each has a set of holders ("frame":
\* the locals of the call, "lambda": the captures of the completion lambda,
\* "response": the members of the TrtServerResponse) and a count of how
\* often its destructor ran.
Objects == {"infer_stats", "timer", "request_status", "infer_response_provider"}
ResponseMembers == {"request_status", "infer_response_provider"}
NoObject == [holders |-> {}, destroyed |-> 0]

\* std::shared_ptr copy / make_shared: `holder` gets a reference to `names`.
Share(owned, names, holder) ==
  [o \in Objects |->
     IF o \in names
     THEN [owned[o] EXCEPT !.holders = @ \cup {holder}]
     ELSE owned[o]]

\* std::shared_ptr destructor / reset(): `holder` gives up its reference to
\* `names`; the object is destroyed when that was the last reference.
Unshare(owned, names, holder) ==
  [o \in Objects |->
     IF o \in names /\ holder \in owned[o].holders
     THEN [holders |-> owned[o].holders \ {holder},
           destroyed |-> owned[o].destroyed +
                           (IF owned[o].holders = {holder} THEN 1 ELSE 0)]
     ELSE owned[o]]

\* The response provider: the response header and the output buffers the
\* engine fills in while it runs the request.
OutputNames == {"out", "none"}
NoProvider == [made |-> FALSE, header |-> <<>>, outputs |-> <<>>]
EmptyProvider == [made |-> TRUE, header |-> <<>>, outputs |-> <<>>]
\* What the engine has put into the provider of call i when it reports the
\* terminal result S.
FilledProvider(i, S) ==
  IF S.code = "SUCCESS"
  THEN [made |-> TRUE,
        header |-> <<<<1, "m">>, <<2, i>>>>,
        outputs |-> ("out" :> [base |-> i, byte_size |-> 4])]
  ELSE EmptyProvider

InferInit ==
  /\ objs = [i \in Calls |-> [o \in Objects |-> NoObject]]
  /\ response_provider = [i \in Calls |-> NoProvider]
  /\ deleted = {}
  /\ lastResp = <<>>
  /\ pc = [i \in Calls |-> "idle"]
  /\ ret = [i \in Calls |-> nullptr]
  /\ infer_stats = [i \in Calls |-> NoStats]
  /\ verbs = [i \in Calls |-> <<>>]
  /\ cont = [i \in Calls |-> NoCont]
  /\ request_status = [i \in Calls |-> DefaultRequestStatus]
  /\ responses = [i \in Calls |-> <<>>]
  /\ delivered = [i \in Calls |-> <<>>]

\* Mutant: a failing step is reported as INTERNAL whatever its code was.
StepOrReturnDropsCode(i, name, S, next) ==
  /\ verbs' = [verbs EXCEPT ![i] = Append(@, Verb(name, provider[1], S))]
  /\ IF StatusIsError(S)
     THEN /\ ret' = [ret EXCEPT ![i] = Create("INTERNAL", S.msg)]
          /\ pc' = [pc EXCEPT ![i] = "returned"]
          /\ objs' = [objs EXCEPT ![i] = Unshare(@, Objects, "frame")]
          /\ response_provider' = response_provider
     ELSE /\ ret' = ret
          /\ pc' = [pc EXCEPT ![i] = next]
          /\ IF name = "DelegatingInferResponseProvider::Create"
             THEN /\ objs' = [objs EXCEPT ![i] =
                       Share(@, {"infer_response_provider"}, "frame")]
                  /\ response_provider' =
                       [response_provider EXCEPT ![i] = EmptyProvider]
             ELSE UNCHANGED <<objs, response_provider>>

\* RETURN_IF_STATUS_ERROR(S) inside TRTSERVER_ServerInferAsync, S being the
\* answer of engine verb `name`: return the translated error, or go on to
\* the step `next`.
\* Returning destroys the locals of the call.
StepOrReturn(i, name, S, next) ==
  /\ verbs' = [verbs EXCEPT ![i] = Append(@, Verb(name, provider[1], S))]
  /\ IF StatusIsError(S)
     THEN /\ ret' = [ret EXCEPT ![i] = ReturnIfStatusError(S)]
          /\ pc' = [pc EXCEPT ![i] = "returned"]
          /\ objs' = [objs EXCEPT ![i] = Unshare(@, Objects, "frame")]
          /\ response_provider' = response_provider
     ELSE /\ ret' = ret
          /\ pc' = [pc EXCEPT ![i] = next]
          /\ IF name = "DelegatingInferResponseProvider::Create"
             THEN /\ objs' = [objs EXCEPT ![i] =
                       Share(@, {"infer_response_provider"}, "frame")]
                  /\ response_provider' =
                       [response_provider EXCEPT ![i] = EmptyProvider]
             ELSE UNCHANGED <<objs, response_provider>>

\* The lambda of lines 577-587 as HandleInfer receives it.
Continuation ==
  [state |-> "queued",
   captured |-> {"infer_stats", "timer", "request_status",
                 "infer_response_provider"},
   trace |-> <<>>]

\* Lines 544-554: the stats object and its timer are made, the stats are
\* marked failed.
InferStart(i) ==
  /\ pc[i] = "idle"
  /\ provider # nullptr
  /\ TheServer \in LiveServers
  /\ infer_stats' = [infer_stats EXCEPT ![i] = [made |-> TRUE, failed |-> TRUE]]
  /\ pc' = [pc EXCEPT ![i] = "resolve"]
  /\ objs' = [objs EXCEPT ![i] = Share(@, {"infer_stats", "timer"}, "frame")]
  /\ UNCHANGED <<ret, verbs, cont, request_status, responses, delivered,
                 response_provider,
                 errVars, reqVars, srvVars, bundleVars>>

\* Lines 556-560: GetInferenceBackend.
InferGetBackend(i) ==
  /\ pc[i] = "resolve"
  /\ \E S \in GetInferenceBackendOutcomes(provider[1].model_name_,
                                          provider[1].model_version_) :
       StepOrReturn(i, "GetInferenceBackend", S, "normalize")
  /\ UNCHANGED <<infer_stats, cont, request_status, responses, delivered,
                 errVars, reqVars, srvVars, bundleVars>>

\* Mutant: the header is copied and the copy is normalized.
InferNormalizeOnCopy(i) ==
  /\ pc[i] = "normalize"
  /\ \E S \in NormalizeOutcomes :
       StepOrReturn(i, "NormalizeRequestHeader", S, "reqprov")
  /\ UNCHANGED <<infer_stats, cont, request_status, responses, delivered,
                 reqVars, errVars, srvVars, bundleVars>>

\* Line 562: NormalizeRequestHeader writes the provider's own header.  No
\* lock orders the calls that share the provider: when another call is at
\* this line too, the two writes race.
InferNormalize(i) ==
  /\ pc[i] = "normalize"
  /\ \E S \in NormalizeOutcomes :
       /\ StepOrReturn(i, "NormalizeRequestHeader", S, "reqprov")
       /\ IF StatusIsError(S) THEN UNCHANGED <<provider, header_torn>>
          ELSE /\ provider' = <<[provider[1] EXCEPT !.request_header_ =
                                   NormalizeRequestHeader(@)]>>
               /\ header_torn' \in
                    TornOutcomes(header_torn,
                                 \E j \in Calls \ {i} : pc[j] = "normalize")
  /\ UNCHANGED <<infer_stats, cont, request_status, responses, delivered,
                 lastNew, setCalls, errVars, srvVars, bundleVars>>

\* Mutant: HandleInfer is called as soon as the request provider is built,
\* before the response provider is.
InferRequestProviderCreateDispatches(i) ==
  /\ pc[i] = "reqprov"
  /\ \E S \in RequestProviderOutcomes :
       /\ StepOrReturn(i, "InferRequestProvider::Create", S, "respprov")
       /\ cont' = IF StatusIsError(S) THEN cont
                  ELSE [cont EXCEPT ![i] = Continuation]
  /\ UNCHANGED <<infer_stats, request_status, responses, delivered,
                 errVars, reqVars, srvVars, bundleVars>>

\* Lines 564-567: InferRequestProvider::Create.
InferRequestProviderCreate(i) ==
  /\ pc[i] = "reqprov"
  /\ \E S \in RequestProviderOutcomes :
       StepOrReturn(i, "InferRequestProvider::Create", S, "respprov")
  /\ UNCHANGED <<infer_stats, cont, request_status, responses, delivered,
                 errVars, reqVars, srvVars, bundleVars>>

\* Mutant: the error of the response provider is returned only after the
\* request was handed to HandleInfer.
InferResponseProviderCreateLateCheck(i) ==
  /\ pc[i] = "respprov"
  /\ \E S \in ResponseProviderOutcomes :
       StepOrReturn(i, "DelegatingInferResponseProvider::Create", S,
                    "dispatch")
  /\ cont' = [cont EXCEPT ![i] = Continuation]
  /\ UNCHANGED <<infer_stats, request_status, responses, delivered,
                 errVars, reqVars, srvVars, bundleVars>>

\* Lines 569-571: DelegatingInferResponseProvider::Create.
InferResponseProviderCreate(i) ==
  /\ pc[i] = "respprov"
  /\ \E S \in ResponseProviderOutcomes :
       StepOrReturn(i, "DelegatingInferResponseProvider::Create", S,
                    "dispatch")
  /\ UNCHANGED <<infer_stats, cont, request_status, responses, delivered,
                 errVars, reqVars, srvVars, bundleVars>>

\* Mutant: the lambda captures the four shared pointers by reference, so
\* it holds no reference of its own.
InferHandleInferCapturesByReference(i) ==
  /\ pc[i] = "dispatch"
  /\ pc' = [pc EXCEPT ![i] = "handleinfer"]
  /\ request_status' = [request_status EXCEPT ![i] = DefaultRequestStatus]
  /\ cont' = [cont EXCEPT ![i] = Continuation]
  /\ verbs' = [verbs EXCEPT ![i] =
                 Append(@, Verb("HandleInfer", provider[1], Success))]
  /\ objs' = [objs EXCEPT ![i] = Share(@, {"request_status"}, "frame")]
  /\ UNCHANGED <<ret, infer_stats, responses, delivered, response_provider,
                 errVars, reqVars, srvVars, bundleVars>>

\* Lines 573-587: request_status is allocated and HandleInfer is called with
\* the lambda, which holds copies of the four shared pointers.
InferHandleInfer(i) ==
  /\ pc[i] = "dispatch"
  /\ pc' = [pc EXCEPT ![i] = "handleinfer"]
  /\ request_status' = [request_status EXCEPT ![i] = DefaultRequestStatus]
  /\ cont' = [cont EXCEPT ![i] = Continuation]
  /\ verbs' = [verbs EXCEPT ![i] =
                 Append(@, Verb("HandleInfer", provider[1], Success))]
  /\ objs' = [objs EXCEPT ![i] =
                Share(Share(@, {"request_status"}, "frame"),
                      Continuation.captured, "lambda")]
  /\ UNCHANGED <<ret, infer_stats, responses, delivered, response_provider,
                 errVars, reqVars, srvVars, bundleVars>>

\* Line 589: HandleInfer has returned; the call returns nullptr.
InferReturn(i) ==
  /\ pc[i] = "handleinfer"
  /\ pc' = [pc EXCEPT ![i] = "returned"]
  /\ ret' = [ret EXCEPT ![i] = nullptr]
  /\ objs' = [objs EXCEPT ![i] = Unshare(@, Objects, "frame")]
  /\ UNCHANGED <<infer_stats, verbs, cont, request_status, responses,
                 delivered, response_provider, errVars, reqVars, srvVars, bundleVars>>

\* The engine finishes the request: it writes the terminal result.
EngineComplete(i) ==
  /\ cont[i].state = "queued"
  /\ \E S \in TerminalResults :
       /\ request_status' = [request_status EXCEPT ![i] = S]
       /\ response_provider' =
            [response_provider EXCEPT ![i] = FilledProvider(i, S)]
  /\ cont' = [cont EXCEPT ![i].state = "completed"]
  /\ UNCHANGED <<pc, ret, infer_stats, verbs, responses, delivered, objs,
                 errVars, reqVars, srvVars, bundleVars>>

\* Mutant: the lambda invokes complete_fn twice with the response.
RunContinuationTwice(i) ==
  /\ cont[i].state = "completed"
  /\ infer_stats' = [infer_stats EXCEPT ![i].failed = FALSE]
  /\ LET response == [request_status_ |-> i, response_provider_ |-> i]
         call == [server |-> TheServer,
                  response |-> <<i, Len(responses[i]) + 1>>, userp |-> i]
     IN /\ responses' = [responses EXCEPT ![i] = Append(@, response)]
        /\ delivered' = [delivered EXCEPT ![i] = Append(Append(@, call), call)]
  /\ cont' = [cont EXCEPT ![i] =
       [state |-> "callback",
        captured |-> @.captured \ {"timer"},
        trace |-> <<"SetFailed(false)", "timer.reset",
                    "new TrtServerResponse", "complete_fn", "complete_fn">>]]
  /\ objs' = [objs EXCEPT ![i] =
                Share(Unshare(@, {"timer"}, "lambda"),
                      ResponseMembers, "response")]
  /\ UNCHANGED <<pc, ret, verbs, request_status, response_provider,
                 errVars, reqVars, srvVars, bundleVars>>

\* Mutant: the lambda invokes complete_fn only when the request succeeded.
RunContinuationOnSuccessOnly(i) ==
  /\ cont[i].state = "completed"
  /\ infer_stats' = [infer_stats EXCEPT ![i].failed = FALSE]
  /\ LET response == [request_status_ |-> i, response_provider_ |-> i]
         call == [server |-> TheServer,
                  response |-> <<i, Len(responses[i]) + 1>>, userp |-> i]
     IN IF request_status[i].code = "SUCCESS"
        THEN /\ responses' = [responses EXCEPT ![i] = Append(@, response)]
             /\ delivered' = [delivered EXCEPT ![i] = Append(@, call)]
        ELSE UNCHANGED <<responses, delivered>>
  /\ cont' = [cont EXCEPT ![i] =
       [state |-> "callback",
        captured |-> @.captured \ {"timer"},
        trace |-> <<"SetFailed(false)", "timer.reset">>]]
  /\ objs' = [objs EXCEPT ![i] =
                Share(Unshare(@, {"timer"}, "lambda"),
                      ResponseMembers, "response")]
  /\ UNCHANGED <<pc, ret, verbs, request_status, response_provider,
                 errVars, reqVars, srvVars, bundleVars>>

\* Lines 577-587: the engine invokes the lambda, which runs up to and
\* into complete_fn.
RunContinuation(i) ==
  /\ cont[i].state = "completed"
  /\ infer_stats' = [infer_stats EXCEPT ![i].failed = FALSE]
  /\ LET response == [request_status_ |-> i, response_provider_ |-> i]
     IN /\ responses' = [responses EXCEPT ![i] = Append(@, response)]
        /\ delivered' = [delivered EXCEPT ![i] =
             Append(@, [server |-> TheServer,
                        response |-> <<i, Len(responses'[i])>>,
                        userp |-> i])]
  /\ cont' = [cont EXCEPT ![i] =
       [state |-> "callback",
        captured |-> @.captured \ {"timer"},
        trace |-> <<"SetFailed(false)", "timer.reset",
                    "new TrtServerResponse", "complete_fn">>]]
  /\ objs' = [objs EXCEPT ![i] =
                Share(Unshare(@, {"timer"}, "lambda"),
                      ResponseMembers, "response")]
  /\ UNCHANGED <<pc, ret, verbs, request_status, response_provider,
                 errVars, reqVars, srvVars, bundleVars>>

\* complete_fn returns, the lambda returns, the engine destroys it.
CallbackReturn(i) ==
  /\ cont[i].state = "callback"
  /\ cont' = [cont EXCEPT ![i].state = "done", ![i].captured = {}]
  /\ objs' = [objs EXCEPT ![i] = Unshare(@, cont[i].captured, "lambda")]
  /\ UNCHANGED <<pc, ret, infer_stats, verbs, request_status, responses,
                 delivered, response_provider, errVars, reqVars, srvVars, bundleVars>>

InferNext ==
  \/ \E n \in ModelNames, v \in ModelVersions, b \in HeaderBytes :
       TRTSERVER_InferenceRequestProviderNew(n, v, b)
  \/ \E i \in Calls : InferStart(i)
  \/ \E i \in Calls : InferGetBackend(i)
  \/ \E i \in Calls : InferNormalize(i)
  \/ \E i \in Calls : InferRequestProviderCreate(i)
  \/ \E i \in Calls : InferResponseProviderCreate(i)
  \/ \E i \in Calls : InferHandleInfer(i)
  \/ \E i \in Calls : InferReturn(i)
  \/ \E i \in Calls : EngineComplete(i)
  \/ \E i \in Calls : RunContinuation(i)
  \/ \E i \in Calls : CallbackReturn(i)

(***************************************************************************)
(* TrtServerResponse and the TRTSERVER_InferenceResponse* functions.  A    *)
(* response is named <<i, n>>: the n-th one the lambda of call i made; its *)
(* members point to the request_status and the response provider of the    *)
(* calls they are numbered with.                                           *)
(***************************************************************************)
\* The TrtServerResponse objects constructed so far.
AllResponses == {h \in Calls \X (1..2) : h[2] <= Len(responses[h[1]])}
ResponseAt(h) == responses[h[1]][h[2]]
\* Those handed to complete_fn, and those of them not yet deleted.
DeliveredResponses ==
  UNION {{delivered[i][k].response : k \in 1..Len(delivered[i])} : i \in Calls}
LiveResponses == {h \in DeliveredResponses : h \notin deleted}

\* InferResponseProvider::OutputBufferContents(name, &base, &byte_size)
OutputBufferContents(prov, name) ==
  IF name \in DOMAIN prov.outputs
  THEN [status |-> Success, content |-> <<prov.outputs[name]>>]
  ELSE [status |-> [code |-> "NOT_FOUND", msg |-> "no such output"],
        content |-> Unwritten]

\* TrtServerResponse::Status()
Status(lresponse) == CreateFromStatus(request_status[lresponse.request_status_])

\* TrtServerResponse::Header()
Header(lresponse) == response_provider[lresponse.response_provider_].header

\* Mutant: the status of OutputBufferContents is dropped.
OutputDataIgnoresStatus(lresponse, name) ==
  LET answer == OutputBufferContents(
                  response_provider[lresponse.response_provider_], name)
  IN [ret |-> nullptr, out |-> answer.content]

\* TrtServerResponse::OutputData(name, base, byte_size): [ret, out]
OutputData(lresponse, name) ==
  LET answer == OutputBufferContents(
                  response_provider[lresponse.response_provider_], name)
  IN IF StatusIsError(answer.status)
     THEN [ret |-> ReturnIfStatusError(answer.status), out |-> Unwritten]
     ELSE [ret |-> nullptr, out |-> answer.content]

\* Mutant: the header is wrapped without looking at the terminal result.
InferenceResponseHeaderNoStatusCheck(lresponse) ==
  [ret |-> nullptr, out |-> <<TrtServerProtobuf(Header(lresponse))>>]

\* TRTSERVER_InferenceResponseHeader(response, &header): [ret, out]
InferenceResponseHeader(lresponse) ==
  LET status == Status(lresponse)
  IN IF status # nullptr
     THEN [ret |-> status, out |-> Unwritten]
     ELSE [ret |-> nullptr, out |-> <<TrtServerProtobuf(Header(lresponse))>>]

ResponseCall(op, h, name, answer) ==
  [op |-> op, response |-> h, name |-> name,
   ret |-> answer.ret, out |-> answer.out]

\* TRTSERVER_InferenceResponseStatus(response)
TRTSERVER_InferenceResponseStatus(h) ==
  /\ h \in LiveResponses
  /\ lastResp' = <<ResponseCall("Status", h, "",
                     [ret |-> Status(ResponseAt(h)), out |-> Unwritten])>>
  /\ UNCHANGED <<pc, ret, infer_stats, verbs, cont, request_status, responses,
                 delivered, objs, response_provider, deleted,
                 errVars, reqVars, srvVars>>

\* TRTSERVER_InferenceResponseHeader(response, &header)
TRTSERVER_InferenceResponseHeader(h) ==
  /\ h \in LiveResponses
  /\ lastResp' = <<ResponseCall("Header", h, "",
                     InferenceResponseHeader(ResponseAt(h)))>>
  /\ UNCHANGED <<pc, ret, infer_stats, verbs, cont, request_status, responses,
                 delivered, objs, response_provider, deleted,
                 errVars, reqVars, srvVars>>

\* TRTSERVER_InferenceResponseOutputData(response, name, &base, &byte_size)
TRTSERVER_InferenceResponseOutputData(h, name) ==
  /\ h \in LiveResponses
  /\ lastResp' = <<ResponseCall("OutputData", h, name,
                     OutputData(ResponseAt(h), name))>>
  /\ UNCHANGED <<pc, ret, infer_stats, verbs, cont, request_status, responses,
                 delivered, objs, response_provider, deleted,
                 errVars, reqVars, srvVars>>

\* Mutant: deleting one response gives up the references of every response.
ResponseDeleteReleasesAll(h) ==
  /\ h \in LiveResponses
  /\ deleted' = deleted \cup {h}
  /\ objs' = [i \in Calls |-> Unshare(objs[i], ResponseMembers, "response")]
  /\ UNCHANGED <<pc, ret, infer_stats, verbs, cont, request_status, responses,
                 delivered, response_provider, lastResp,
                 errVars, reqVars, srvVars>>

\* TRTSERVER_InferenceResponseDelete(response): the destructor of
\* TrtServerResponse gives up its two shared pointers.
TRTSERVER_InferenceResponseDelete(h) ==
  /\ h \in LiveResponses
  /\ deleted' = deleted \cup {h}
  /\ objs' = [objs EXCEPT ![h[1]] = Unshare(@, ResponseMembers, "response")]
  /\ UNCHANGED <<pc, ret, infer_stats, verbs, cont, request_status, responses,
                 delivered, response_provider, lastResp,
                 errVars, reqVars, srvVars>>

\* inferAsync calls on a descriptor the caller has created.
CallNext ==
  \/ \E i \in Calls : InferStart(i)
  \/ \E i \in Calls : InferGetBackend(i)
  \/ \E i \in Calls : InferNormalize(i)
  \/ \E i \in Calls : InferRequestProviderCreate(i)
  \/ \E i \in Calls : InferResponseProviderCreate(i)
  \/ \E i \in Calls : InferHandleInfer(i)
  \/ \E i \in Calls : InferReturn(i)
  \/ \E i \in Calls : EngineComplete(i)
  \/ \E i \in Calls : RunContinuation(i)
  \/ \E i \in Calls : CallbackReturn(i)

\* The same together with the caller deleting delivered responses.
LifeNext ==
  \/ CallNext
  \/ \E h \in LiveResponses : TRTSERVER_InferenceResponseDelete(h)

\* The caller queries and deletes the responses it was delivered.
RespNext ==
  \/ \E h \in LiveResponses : TRTSERVER_InferenceResponseStatus(h)
  \/ \E h \in LiveResponses : TRTSERVER_InferenceResponseHeader(h)
  \/ \E h \in LiveResponses, name \in OutputNames :
       TRTSERVER_InferenceResponseOutputData(h, name)
  \/ \E h \in LiveResponses : TRTSERVER_InferenceResponseDelete(h)

Init0 ==
  /\ ErrInit
  /\ ReqInit
  /\ SrvInit
  /\ InferInit

\* A server created from options naming a valid repository is live.
ServerVerbs ==
  <<EngineCall("ServerNew", TheServer, "new", ""),
    EngineCall("ServerNew", TheServer, "SetModelStorePath", "/models"),
    EngineCall("ServerNew", TheServer, "Init", "")>>
Init ==
  /\ ErrInit
  /\ ReqInit
  /\ options = <<[repo_path_ |-> "/models"]>>
  /\ engines = <<[store_path |-> "/models", state |-> "ready",
                  trace |-> ServerVerbs]>>
  /\ lastSrv = <<[op |-> "ServerNew", server |-> NullServer,
                  arg |-> "", init_ok |-> TRUE, ret |-> nullptr,
                  out |-> <<TheServer>>, verbs |-> ServerVerbs]>>
  /\ InferInit

\* The provider after the SetInputData calls of `history`.
RECURSIVE ProviderAfter(_, _)
ProviderAfter(lprovider, history) ==
  IF history = <<>> THEN lprovider
  ELSE ProviderAfter(SetInputDataOn(lprovider, history[1][1], history[1][2],
                                    history[1][3]),
                     Tail(history))

\* A live server and a descriptor made by
\* TRTSERVER_InferenceRequestProviderNew(model_name, model_version, bytes),
\* bytes that parse, followed by the SetInputData calls of `history`.
InitWith(model_name, model_version, bytes, history) ==
  LET made == TrtServerRequestProvider(model_name, model_version,
                                       ParseFromArray(bytes).header)
  IN /\ ErrInit
     /\ options = <<[repo_path_ |-> "/models"]>>
     /\ engines = <<[store_path |-> "/models", state |-> "ready",
                     trace |-> ServerVerbs]>>
     /\ lastSrv = <<[op |-> "ServerNew", server |-> NullServer,
                     arg |-> "", init_ok |-> TRUE, ret |-> nullptr,
                     out |-> <<TheServer>>, verbs |-> ServerVerbs]>>
     /\ provider = <<ProviderAfter(made, history)>>
     /\ lastNew = <<[model_name |-> model_name,
                     model_version |-> model_version,
                     bytes |-> bytes, ret |-> nullptr, out |-> <<made>>,
                     verbs |-> <<>>]>>
     /\ setCalls = history
     /\ header_torn = FALSE
     /\ InferInit

\* One descriptor of the known model, without inputs.
OneDescriptorInit == InitWith("m", 1, <<8, 1>>, <<>>)

\* A descriptor of the known model, of either version, with or without
\* inputs.
DescHistories == {<<>>, <<<<"a", "p1", 4>>, <<"b", "p2", 8>>, <<"a", "p2", 8>>>>}
DescInit ==
  \E model_version \in ModelVersions, history \in DescHistories :
    InitWith("m", model_version, <<8, 1>>, history)

\* The engine runs every request it was handed to completion and invokes
\* its continuation; complete_fn returns.
EngineFairness ==
  \A i \in Calls :
    /\ WF_vars(EngineComplete(i))
    /\ WF_vars(RunContinuation(i))
    /\ WF_vars(CallbackReturn(i))

\* Every call was scheduled on one descriptor of model "m", one after the
\* other; the engine completed each with some terminal result, the callbacks
\* and the calls have returned, and the caller holds the responses.
DoneProvider ==
  TrtServerRequestProvider("m", 1, NormalizeRequestHeader(
                                     ParseFromArray(<<8, 1>>).header))
DoneVerbs(i) ==
  LET before == IF i = 1
                THEN TrtServerRequestProvider("m", 1,
                                              ParseFromArray(<<8, 1>>).header)
                ELSE DoneProvider
  IN <<Verb("GetInferenceBackend", before, Success),
       Verb("NormalizeRequestHeader", before, Success),
       Verb("InferRequestProvider::Create", DoneProvider, Success),
       Verb("DelegatingInferResponseProvider::Create", DoneProvider, Success),
       Verb("HandleInfer", DoneProvider, Success)>>
RespInit ==
  /\ ErrInit
  /\ options = <<[repo_path_ |-> "/models"]>>
  /\ engines = <<[store_path |-> "/models", state |-> "ready",
                  trace |-> ServerVerbs]>>
  /\ lastSrv = <<[op |-> "ServerNew", server |-> NullServer,
                  arg |-> "", init_ok |-> TRUE, ret |-> nullptr,
                  out |-> <<TheServer>>, verbs |-> ServerVerbs]>>
  /\ provider = <<DoneProvider>>
  /\ lastNew = <<[model_name |-> "m", model_version |-> 1,
                  bytes |-> <<8, 1>>, ret |-> nullptr,
                  out |-> <<TrtServerRequestProvider(
                              "m", 1, ParseFromArray(<<8, 1>>).header)>>,
                  verbs |-> <<>>]>>
  /\ setCalls = <<>>
  /\ header_torn = FALSE
  /\ pc = [i \in Calls |-> "returned"]
  /\ ret = [i \in Calls |-> nullptr]
  /\ infer_stats = [i \in Calls |-> [made |-> TRUE, failed |-> FALSE]]
  /\ verbs = [i \in Calls |-> DoneVerbs(i)]
  /\ cont = [i \in Calls |->
               [state |-> "done", captured |-> {},
                trace |-> <<"SetFailed(false)", "timer.reset",
                            "new TrtServerResponse", "complete_fn">>]]
  /\ request_status \in [Calls -> TerminalResults]
  /\ responses = [i \in Calls |->
                    <<[request_status_ |-> i, response_provider_ |-> i]>>]
  /\ delivered = [i \in Calls |->
                    <<[server |-> TheServer, response |-> <<i, 1>>,
                       userp |-> i]>>]
  /\ objs = [i \in Calls |-> [o \in Objects |->
               IF o \in ResponseMembers
               THEN [holders |-> {"response"}, destroyed |-> 0]
               ELSE [holders |-> {}, destroyed |-> 1]]]
  /\ response_provider =
       [i \in Calls |-> FilledProvider(i, request_status[i])]
  /\ deleted = {}
  /\ lastResp = <<>>

ErrSpec == Init0 /\ [][ErrNext]_vars
ReqSpec == Init0 /\ [][ReqNext]_vars
ServerSpec == Init0 /\ [][SrvNext]_vars
Spec == Init /\ [][InferNext]_vars
FairSpec == OneDescriptorInit /\ [][CallNext]_vars /\ EngineFairness
LifeSpec == OneDescriptorInit /\ [][LifeNext]_vars
DescSpec == DescInit /\ [][CallNext]_vars
RespSpec == RespInit /\ [][RespNext]_vars

(***************************************************************************)
(* The claims.                                                             *)
(***************************************************************************)
Started(i) == cont[i].state \in {"callback", "done"}
Scheduled(i) == pc[i] = "returned" /\ ret[i] = nullptr
\* The complete_fn invocations so far: <<i, k>> is the k-th one of call i.
Deliveries == {d \in Calls \X (1..2) : d[2] <= Len(delivered[d[1]])}

\* C1: for an inferAsync call that returns no error, complete_fn is invoked
\* at most once; every invocation passes a TrtServerResponse constructed for
\* it (no response is passed twice, and it wraps this call's request_status
\* and response provider); and no invocation happens before the engine
\* wrote the terminal result and invoked the continuation.
C1_CallbackAtMostOnceFreshAfterCompletion ==
  /\ \A i \in Calls :
       /\ Len(delivered[i]) <= 1
       /\ \A k \in 1..Len(delivered[i]) :
            /\ delivered[i][k].response \in AllResponses
            /\ ResponseAt(delivered[i][k].response) =
                 [request_status_ |-> i, response_provider_ |-> i]
            /\ delivered[i][k].userp = i
       /\ delivered[i] # <<>> =>
            /\ Started(i)
            /\ request_status[i] \in TerminalResults
            /\ cont[i].trace[Len(cont[i].trace)] = "complete_fn"
  /\ \A d, e \in Deliveries :
       delivered[d[1]][d[2]].response = delivered[e[1]][e[2]].response
         => d = e
  /\ Cardinality(AllResponses) = Cardinality(Deliveries)

C1_Witness ==
  \E i \in Calls :
    /\ Scheduled(i)
    /\ Len(delivered[i]) = 1
    /\ \E j \in Calls : j # i /\ Len(delivered[j]) = 1

\* C2 as claimed: the callback is running or finished only when the
\* inferAsync call that scheduled it has returned.
C2_CallbackAfterReturn ==
  \A i \in Calls : Started(i) => pc[i] = "returned"

\* C2 as amended: the callback is running or finished only when the
\* inferAsync call that scheduled it has called HandleInfer (it is inside
\* HandleInfer or has returned without error) and the engine has written
\* the terminal result; the call need not have returned.
C2_CallbackAfterHandleInfer ==
  \A i \in Calls :
    Started(i) =>
      /\ pc[i] \in {"handleinfer", "returned"}
      /\ ret[i] = nullptr
      /\ verbs[i][Len(verbs[i])].verb = "HandleInfer"
      /\ request_status[i] \in TerminalResults

C2_Witness ==
  \E i \in Calls : cont[i].state = "done" /\ pc[i] = "handleinfer"

\* C3: when a scheduling step (GetInferenceBackend, NormalizeRequestHeader,
\* request provider, response provider) answers with a failure, inferAsync
\* returns a present error and complete_fn is never invoked for the
\* request: no continuation exists that could invoke it.
C3_SchedulingFailureNoCallback ==
  \A i \in Calls :
    /\ \A k \in 1..Len(verbs[i]) :
         StatusIsError(verbs[i][k].result) =>
           /\ pc[i] = "returned"
           /\ ret[i] # nullptr
    /\ (pc[i] = "returned" /\ ret[i] # nullptr) =>
         /\ delivered[i] = <<>>
         /\ cont[i] = NoCont
         /\ \E k \in 1..Len(verbs[i]) : StatusIsError(verbs[i][k].result)

C3_Witness ==
  \E i, j \in Calls :
    /\ pc[i] = "returned" /\ ret[i] # nullptr
    /\ verbs[i][Len(verbs[i])].verb = "DelegatingInferResponseProvider::Create"
    /\ j # i /\ cont[j].state = "done"

\* C4: every request for which inferAsync returned no error eventually has
\* its completion callback invoked exactly once, the engine being fair.
C4_ScheduledEventuallyCalledBack ==
  \A i \in Calls : Scheduled(i) ~> (Len(delivered[i]) = 1)

C4_Witness ==
  \E i \in Calls :
    /\ Scheduled(i)
    /\ cont[i].state = "done"
    /\ Len(delivered[i]) = 1
    /\ request_status[i].code # "SUCCESS"

\* C5: Create(c, m) is nullptr when c is SUCCESS, whatever m; for every
\* other code it is an error object holding c and m, TRTSERVER_ErrorMessage
\* gives m, and for each code the engine reports TRTSERVER_ErrorCode gives
\* the TRTSERVER_ERROR_ constant of the same name.  No error object holds
\* SUCCESS.
C5_ErrorTranslation ==
  /\ errObj # nullptr => errObj[1].code_ # "SUCCESS"
  /\ errPc \in {"created", "read"} =>
       LET a == errArgs[1]
       IN /\ a.code = "SUCCESS" => errObj = nullptr
          /\ a.code # "SUCCESS" =>
               /\ errObj # nullptr
               /\ errObj[1].code_ = a.code
               /\ errObj[1].msg_ = a.msg
          /\ errPc = "read" =>
               /\ errRead[1].message = a.msg
               /\ a.code \in FailureCodes =>
                    errRead[1].code = "TRTSERVER_ERROR_" \o a.code

C5_Witness ==
  /\ errPc = "read"
  /\ errArgs[1] = [code |-> "NOT_FOUND", msg |-> "m1"]
  /\ errRead[1] = [code |-> "TRTSERVER_ERROR_NOT_FOUND", message |-> "m1"]

\* C6: TRTSERVER_InferenceRequestProviderNew on header bytes that do not
\* parse returns an INVALID_ARG error, leaves the caller's handle unwritten
\* and calls no engine verb; every engine verb an inferAsync call invokes
\* sees a provider made from bytes that parsed.
C6_MalformedHeaderRejected ==
  /\ (lastNew # <<>> /\ ~ParseFromArray(lastNew[1].bytes).ok) =>
       /\ lastNew[1].ret # nullptr
       /\ TRTSERVER_ErrorCode(lastNew[1].ret[1]) = "TRTSERVER_ERROR_INVALID_ARG"
       /\ lastNew[1].out = Unwritten
       /\ lastNew[1].verbs = <<>>
       /\ provider = nullptr
  /\ provider # nullptr =>
       /\ lastNew # <<>>
       /\ ParseFromArray(lastNew[1].bytes).ok
       /\ lastNew[1].ret = nullptr
  /\ \A i \in Calls :
       (pc[i] # "idle" \/ verbs[i] # <<>>) =>
         /\ provider # nullptr
         /\ ParseFromArray(lastNew[1].bytes).ok
         /\ \A k \in 1..Len(verbs[i]) :
              verbs[i][k].verb \in HeaderVerbs =>
                verbs[i][k].args.header.batch_size =
                  ParseFromArray(lastNew[1].bytes).header.batch_size

C6_Witness ==
  /\ lastNew # <<>>
  /\ lastNew[1].bytes = <<8>>
  /\ lastNew[1].ret # nullptr
  /\ provider = nullptr

\* The SetInputData calls made with input_name, as (base, byte_size) pairs
\* in call order.
RECURSIVE CallsFor(_, _)
CallsFor(input_name, history) ==
  IF history = <<>> THEN <<>>
  ELSE (IF history[1][1] = input_name
        THEN <<<<history[1][2], history[1][3]>>>>
        ELSE <<>>) \o CallsFor(input_name, Tail(history))

\* C7: after any sequence of SetInputData calls the input map has exactly
\* one entry per input name used, and the fragment list of each name is the
\* (base, byte_size) pairs of the calls made with that name, in call order
\* (so a call for one name leaves the lists of the other names as they were).
C7_InputMapIsCallHistory ==
  provider # nullptr =>
    /\ DOMAIN provider[1].input_map_ =
         {setCalls[k][1] : k \in 1..Len(setCalls)}
    /\ \A n \in DOMAIN provider[1].input_map_ :
         provider[1].input_map_[n] = CallsFor(n, setCalls)

C7_Witness ==
  /\ provider # nullptr
  /\ setCalls = <<<<"a", "p1", 4>>, <<"b", "p1", 4>>, <<"a", "p2", 8>>>>
  /\ provider[1].input_map_["a"] = <<<<"p1", 4>>, <<"p2", 8>>>>

\* C8: TRTSERVER_ServerDelete on a non-null handle calls the engine's Stop
\* once and then destroys the engine; on nullptr it calls no engine verb;
\* no engine is destroyed by ServerDelete without Stop just before.
C8_StopBeforeDestroy ==
  /\ (lastSrv # <<>> /\ lastSrv[1].op = "ServerDelete") =>
       lastSrv[1].verbs =
         IF lastSrv[1].server = NullServer THEN <<>>
         ELSE <<EngineCall("ServerDelete", lastSrv[1].server, "Stop", ""),
                EngineCall("ServerDelete", lastSrv[1].server, "delete", "")>>
  /\ \A e \in 1..Len(engines) :
       \A k \in 1..Len(engines[e].trace) :
         (engines[e].trace[k].verb = "delete"
            /\ engines[e].trace[k].by = "ServerDelete") =>
           /\ k > 1
           /\ engines[e].trace[k - 1].verb = "Stop"
           /\ Cardinality({j \in 1..Len(engines[e].trace) :
                             engines[e].trace[j].verb = "Stop"}) = 1
           /\ k = Len(engines[e].trace)

C8_Witness ==
  /\ lastSrv # <<>>
  /\ lastSrv[1].op = "ServerDelete"
  /\ lastSrv[1].server # NullServer
  /\ engines[lastSrv[1].server].state = "destroyed"

\* C9: TRTSERVER_ServerNew sets the engine's model store path from the
\* options before it calls Init; when Init fails the engine is destroyed
\* once, the caller's handle stays unwritten and the error is INVALID_ARG;
\* when Init succeeds the handle is written and nullptr is returned.
C9_ServerNew ==
  (lastSrv # <<>> /\ lastSrv[1].op = "ServerNew") =>
    LET c == lastSrv[1]
        e == c.verbs[1].eng
    IN /\ Len(c.verbs) >= 3
       /\ c.verbs[1].verb = "new"
       /\ c.verbs[2] = EngineCall("ServerNew", e, "SetModelStorePath", c.arg)
       /\ c.verbs[3].verb = "Init"
       /\ IF c.init_ok
          THEN /\ Len(c.verbs) = 3
               /\ c.out = <<e>>
               /\ c.ret = nullptr
          ELSE /\ Len(c.verbs) = 4
               /\ c.verbs[4].verb = "delete"
               /\ c.out = Unwritten
               /\ c.ret # nullptr
               /\ TRTSERVER_ErrorCode(c.ret[1]) = "TRTSERVER_ERROR_INVALID_ARG"
               /\ engines[e].state = "destroyed"
       /\ engines[e].store_path = c.arg

C9_Witness ==
  /\ lastSrv # <<>>
  /\ lastSrv[1].op = "ServerNew"
  /\ ~lastSrv[1].init_ok
  /\ lastSrv[1].arg = "/models"

\* C10: TRTSERVER_ServerStatus and TRTSERVER_ServerModelStatus write a
\* payload exactly when HandleStatus reports SUCCESS: on failure the output
\* stays unwritten and the error holds the engine's code and message; on
\* success the payload is the serialized status and nullptr is returned.
\* TRTSERVER_ServerStatus passes the empty model name.
C10_StatusPayloadIffSuccess ==
  (lastSrv # <<>> /\ lastSrv[1].op \in {"ServerStatus", "ServerModelStatus"}) =>
    LET c == lastSrv[1]
        a == c.verbs[1].answer
    IN /\ Len(c.verbs) = 1
       /\ c.verbs[1].verb = "HandleStatus"
       /\ c.verbs[1].eng = c.server
       /\ c.verbs[1].arg = IF c.op = "ServerStatus" THEN "" ELSE c.arg
       /\ (c.out # Unwritten) <=> (a.code = "SUCCESS")
       /\ IF a.code = "SUCCESS"
          THEN /\ c.ret = nullptr
               /\ c.out = <<[serialized_ |-> SerializeToString(a.status)]>>
               /\ Len(c.out[1].serialized_) = 4
          ELSE /\ c.ret = <<[code_ |-> a.code, msg_ |-> a.msg]>>
               /\ c.out = Unwritten

C10_Witness ==
  /\ lastSrv # <<>>
  /\ lastSrv[1].op = "ServerStatus"
  /\ lastSrv[1].ret # nullptr
  /\ lastSrv[1].out = Unwritten

\* What a caller can observe of the response h: the answers of its three
\* queries, the objects it points to and whether they are alive.
View(h) ==
  [status |-> Status(ResponseAt(h)),
   header |-> InferenceResponseHeader(ResponseAt(h)),
   outputs |-> [n \in OutputNames |-> OutputData(ResponseAt(h), n)],
   members |-> ResponseAt(h),
   alive |-> [o \in ResponseMembers |-> objs[h[1]][o].destroyed = 0]]
LastQuery(op) == lastResp # <<>> /\ lastResp[1].op = op
\* A step that performs the query `op`.
QueryStep(op) == lastResp' # lastResp /\ lastResp'[1].op = op

\* C11: on a delivered response, TRTSERVER_InferenceResponseHeader returns
\* an error exactly when the terminal result is not success; the error then
\* has the code and message TRTSERVER_InferenceResponseStatus reports and
\* the out-parameter is not written; otherwise it returns no error and the
\* out-parameter holds a protobuf wrapping the provider's response header.
\* The call changes nothing a caller can observe of any live response.
C11_HeaderFailsIffNotSuccess ==
  /\ [](LastQuery("Header") =>
          LET call == lastResp[1]
              result == request_status[call.response[1]]
          IN /\ call.ret # nullptr <=> result.code # "SUCCESS"
             /\ call.ret # nullptr =>
                  /\ call.ret = <<TrtServerError(result.code, result.msg)>>
                  /\ call.ret = Status(ResponseAt(call.response))
                  /\ call.out = Unwritten
             /\ call.ret = nullptr =>
                  call.out =
                    <<[serialized_ |-> SerializeToString(
                         response_provider[call.response[1]].header)]>>)
  /\ [][QueryStep("Header") =>
          /\ LiveResponses' = LiveResponses
          /\ \A h \in LiveResponses : View(h)' = View(h)]_vars

\* Header was called on a response whose terminal result is a failure, and
\* on the response of another call the same query had succeeded before.
C11_Witness ==
  /\ LastQuery("Header")
  /\ lastResp[1].ret # nullptr
  /\ lastResp[1].ret[1].code_ = "UNAVAILABLE"
  /\ \E h \in LiveResponses :
       h # lastResp[1].response /\ View(h).header.ret = nullptr

\* The engine verbs of call i that are passed a model version.
VersionVerbs(i) ==
  {k \in 1..Len(verbs[i]) :
     verbs[i][k].verb \in {"GetInferenceBackend",
                           "InferRequestProvider::Create"}}

\* C12 as claimed: the version handed to GetInferenceBackend or to
\* InferRequestProvider::Create is never the unresolved -1.
C12_VersionResolvedBeforeEngine ==
  \A i \in Calls : \A k \in VersionVerbs(i) :
    verbs[i][k].args.model_version # -1

\* C12 as amended: the version handed to GetInferenceBackend and to
\* InferRequestProvider::Create is the version the caller gave to
\* TRTSERVER_InferenceRequestProviderNew, unchanged, -1 included.
C12_VersionPassedUnchanged ==
  \A i \in Calls : \A k \in VersionVerbs(i) :
    /\ lastNew # <<>>
    /\ verbs[i][k].args.model_version = lastNew[1].model_version
    /\ verbs[i][k].args.model_version = provider[1].model_version_

\* A call on a descriptor of version -1 has resolved its backend and built
\* its request provider.
C12_Witness ==
  \E i \in Calls :
    /\ lastNew # <<>> /\ lastNew[1].model_version = -1
    /\ Cardinality(VersionVerbs(i)) = 2
    /\ \A k \in VersionVerbs(i) : verbs[i][k].args.model_version = -1

\* A step in which the caller deletes the response g.
DeleteStep(g) == g \in LiveResponses /\ g \notin LiveResponses'

\* C13: two live responses never point to the same request_status or the
\* same response provider, and the objects a live response points to are
\* alive and held by it; a step that deletes one response leaves every
\* other live response live and changes nothing a caller can observe of it
\* (status, header, outputs, liveness of its members).
C13_ResponsesShareNoState ==
  /\ [](\A h \in LiveResponses :
          /\ \A o \in ResponseMembers :
               /\ objs[h[1]][o].destroyed = 0
               /\ "response" \in objs[h[1]][o].holders
          /\ \A g \in LiveResponses :
               g # h =>
                 /\ ResponseAt(g).request_status_ # ResponseAt(h).request_status_
                 /\ ResponseAt(g).response_provider_ #
                      ResponseAt(h).response_provider_)
  /\ [][\A g \in LiveResponses :
          DeleteStep(g) =>
            \A h \in LiveResponses \ {g} :
              /\ h \in LiveResponses'
              /\ View(h)' = View(h)]_vars

\* Two calls were in flight together; the response of one has been deleted
\* and its request_status and provider are destroyed, while the response
\* of the other, completed with success, is live.
C13_Witness ==
  \E g \in deleted, h \in LiveResponses :
    /\ g[1] # h[1]
    /\ \A o \in ResponseMembers : objs[g[1]][o].destroyed = 1
    /\ View(h).status = nullptr
    /\ View(h).outputs["out"].ret = nullptr
    /\ pc[h[1]] = "handleinfer"

\* C14: TRTSERVER_InferenceResponseOutputData for a name the response has no
\* output of returns a NOT_FOUND error and writes no out-parameter, and the
\* call changes nothing a caller can observe of any live response: status,
\* header and the output data of every name answer as before.
C14_UnknownOutputNotFound ==
  /\ [](LastQuery("OutputData") =>
          LET call == lastResp[1]
              prov == response_provider[call.response[1]]
          IN call.name \notin DOMAIN prov.outputs =>
               /\ call.ret # nullptr
               /\ call.ret[1].code_ = "NOT_FOUND"
               /\ TRTSERVER_ErrorCode(call.ret[1]) = "TRTSERVER_ERROR_NOT_FOUND"
               /\ call.out = Unwritten)
  /\ [][QueryStep("OutputData") =>
          /\ LiveResponses' = LiveResponses
          /\ \A h \in LiveResponses : View(h)' = View(h)]_vars

\* OutputData was asked for a missing name on a response of a successful
\* request, whose output "out" is still served.
C14_Witness ==
  /\ LastQuery("OutputData")
  /\ lastResp[1].name = "none"
  /\ lastResp[1].ret # nullptr
  /\ lastResp[1].response \in LiveResponses
  /\ View(lastResp[1].response).status = nullptr
  /\ View(lastResp[1].response).outputs["out"] =
       [ret |-> nullptr,
        out |-> <<[base |-> lastResp[1].response[1], byte_size |-> 4]>>]

\* The request of call i has ended in failure: a scheduling step failed, or
\* the terminal result delivered to complete_fn is not success.
EndedInFailure(i) ==
  \/ pc[i] = "returned" /\ ret[i] # nullptr
  \/ delivered[i] # <<>> /\ request_status[i].code # "SUCCESS"
Discarded(i, o) == objs[i][o].holders = {} /\ objs[i][o].destroyed > 0

\* C15 as claimed: the stats object is marked failed before the first
\* engine verb of the call, and whenever the request has ended in failure
\* and the stats object has been destroyed, it was still marked failed.
C15_FailedMarkKeptOnFailure ==
  \A i \in Calls :
    /\ pc[i] = "resolve" => infer_stats[i] = [made |-> TRUE, failed |-> TRUE]
    /\ EndedInFailure(i) /\ Discarded(i, "infer_stats") =>
         infer_stats[i].failed

\* The engine steps of TRTSERVER_ServerInferAsync in program order.
StepOrder ==
  <<"GetInferenceBackend", "NormalizeRequestHeader",
    "InferRequestProvider::Create", "DelegatingInferResponseProvider::Create",
    "HandleInfer">>
Dispatched(i) ==
  \E k \in 1..Len(verbs[i]) : verbs[i][k].verb = "HandleInfer"

\* C16: the engine verbs of a call are a prefix of resolve, normalize,
\* request provider, response provider, HandleInfer; every verb but the
\* last one answered success; a verb that answers a failure is the last
\* one, the call has returned and its error has exactly that answer's code
\* and message, and no continuation exists; a call returns an error only
\* this way; HandleInfer is called only after four successes, a
\* continuation exists only then, and such a call returns nullptr.
C16_StepsInOrderFirstFailureReturned ==
  \A i \in Calls :
    LET n == Len(verbs[i])
    IN /\ n <= Len(StepOrder)
       /\ \A k \in 1..n : verbs[i][k].verb = StepOrder[k]
       /\ \A k \in 1..n : k < n => verbs[i][k].result = Success
       /\ \A k \in 1..n :
            StatusIsError(verbs[i][k].result) =>
              /\ k = n
              /\ pc[i] = "returned"
              /\ ret[i] = <<TrtServerError(verbs[i][k].result.code,
                                           verbs[i][k].result.msg)>>
              /\ ~Dispatched(i)
              /\ cont[i] = NoCont
       /\ ret[i] # nullptr => n > 0 /\ StatusIsError(verbs[i][n].result)
       /\ pc[i] = "returned" /\ ret[i] = nullptr => Dispatched(i)
       /\ Dispatched(i) <=> cont[i] # NoCont
       /\ Dispatched(i) =>
            /\ n = Len(StepOrder)
            /\ ret[i] = nullptr
            /\ pc[i] \in {"handleinfer", "returned"}

\* One call failed at the response provider, the step before dispatch, and
\* returned its INTERNAL error; another call was dispatched and returned.
C16_Witness ==
  \E i, j \in Calls :
    /\ Len(verbs[i]) = 4
    /\ ret[i] = <<TrtServerError("INTERNAL", "no response provider")>>
    /\ Dispatched(j) /\ pc[j] = "returned" /\ ret[j] = nullptr

\* The responses delivered for call i.
ResponsesOf(i) == {h \in DeliveredResponses : h[1] = i}

\* C17: for a dispatched call, the locals of the call (until it returns),
\* the lambda (until it has run; the timer until its reset) and a live
\* response (for request_status and the response provider) each hold a
\* reference.  No object is destroyed more than once; one that is destroyed
\* has no holder left and its continuation has run; request_status and the
\* response provider are destroyed only when a response was delivered and
\* every response of the call is deleted; and once the call has returned,
\* the lambda is gone and the response is deleted, each of the four objects
\* has been destroyed exactly once.
C17_SharedObjectsDestroyedOnce ==
  \A i \in Calls : \A o \in Objects :
    /\ objs[i][o].destroyed <= 1
    /\ objs[i][o].destroyed = 1 => objs[i][o].holders = {}
    /\ Dispatched(i) =>
         /\ pc[i] = "handleinfer" => "frame" \in objs[i][o].holders
         /\ cont[i].state \in {"queued", "completed"} =>
              "lambda" \in objs[i][o].holders
         /\ cont[i].state = "callback" /\ o # "timer" =>
              "lambda" \in objs[i][o].holders
         /\ objs[i][o].destroyed = 1 => Started(i)
         /\ objs[i][o].destroyed = 1 /\ o \in ResponseMembers =>
              /\ ResponsesOf(i) # {}
              /\ ResponsesOf(i) \subseteq deleted
         /\ pc[i] = "returned" /\ cont[i].state = "done"
              /\ ResponsesOf(i) \subseteq deleted =>
              objs[i][o].destroyed = 1

\* One dispatched call is over and its response deleted: its four objects
\* are destroyed.  Another call has returned and its callback is done, but
\* its response is live: stats and timer are destroyed, request_status and
\* the response provider are not.
C17_Witness ==
  \E i, j \in Calls :
    /\ Dispatched(i) /\ ResponsesOf(i) # {} /\ ResponsesOf(i) \subseteq deleted
    /\ \A o \in Objects : objs[i][o].destroyed = 1
    /\ pc[j] = "returned" /\ cont[j].state = "done"
    /\ ResponsesOf(j) \cap LiveResponses # {}
    /\ \A o \in Objects :
         objs[j][o].destroyed = (IF o \in ResponseMembers THEN 0 ELSE 1)

\* C18 as claimed: the lambda clears the failed mark, resets its timer
\* pointer, constructs the response and calls complete_fn, in this order;
\* and while complete_fn is running the ScopedTimer of the request has
\* been destroyed (stopped): no reference to it is left.
C18_TimerStoppedBeforeCallback ==
  \A i \in Calls :
    /\ cont[i].trace # <<>> =>
         cont[i].trace = <<"SetFailed(false)", "timer.reset",
                           "new TrtServerResponse", "complete_fn">>
    /\ cont[i].state = "callback" =>
         /\ "timer" \notin cont[i].captured
         /\ objs[i]["timer"].holders = {}
         /\ objs[i]["timer"].destroyed = 1

\* The provider as TRTSERVER_InferenceRequestProviderNew made it, and the
\* calls whose NormalizeRequestHeader has succeeded.
MadeProvider == lastNew[1].out[1]
PastResolution(i) == verbs[i] # <<>> /\ verbs[i][1].result = Success
NormalizedBy ==
  {i \in Calls : \E k \in 1..Len(verbs[i]) :
     /\ verbs[i][k].verb = "NormalizeRequestHeader"
     /\ verbs[i][k].result = Success}
\* inferAsync leaves model name, model version and input map as the caller
\* set them.
DescriptorKept ==
  /\ provider[1].model_name_ = lastNew[1].model_name
  /\ provider[1].model_version_ = lastNew[1].model_version
  /\ provider[1].input_map_ = ProviderAfter(MadeProvider, setCalls).input_map_

====
